---------------------------- MODULE Spec2Model ----------------------------
(***************************************************************************)
(* Model of monsql/db.py: the Database session (handle cache, schema       *)
(* operations, commit, close) over a transactional backend connection.     *)
(*                                                                         *)
(* The session's state is __table_map and __mode; the backend connection   *)
(* (__db / __cursor) is the driver's state: whether it is open, the        *)
(* tables as the session sees them (live), the tables as persisted         *)
(* (durable), and the foreign-key pragma.  A Python exception is the       *)
(* field err of the call's running state: once err is set every later      *)
(* statement of the call is skipped.                                       *)
(***************************************************************************)
EXTENDS Integers, Sequences, FiniteSets, TLC

(* ---------------------------- bounds ----------------------------------- *)
\* number of table objects get_table_obj may construct in one behaviour
MaxObjs == 2
\* number of rows written through table handles in one behaviour
MaxRows == 1

(* ---------------------------- values ----------------------------------- *)
Names == {"t", "T"}

\* str.lower() on the names of the model
Lower(n) == IF n = "T" THEN "t" ELSE n

\* a backend table: whether it exists, and the ids of the rows it holds
NoTable == [exists |-> FALSE, rows |-> {}]
EmptyTable == [exists |-> TRUE, rows |-> {}]
NoHandle == [id |-> 0, name |-> ""]
Modes == {"auto", "explicit"}

\* messages of the MonSQLException raised by the session
ErrExists == "TABLE ALREADY EXISTS"
ErrNotFound == "TABLE DOES NOT EXIST"
ErrPrimaryKey == "PRIMARY KEY MUST AT LEAST CONTAINS ONE COLUMN"
\* any exception raised by the driver
ErrBackend == "BACKEND"
Ok == "ok"

PrimaryKeys == {"none", "empty", "cols"}

VARIABLES table_map, mode, nobj, issued, connOpen, foldCase, live, durable,
          fk, nrows, closeMark, ret, pc, held, lock, asked

vars == <<table_map, mode, nobj, issued, connOpen, foldCase, live, durable,
          fk, nrows, closeMark, ret, pc, held, lock, asked>>

\* asked: the names passed to get since the session was constructed or
\* last closed (a history of the calls; no field of the session holds it)

\* the callers' side of a session shared by several callers: where each
\* caller stands inside get, the handle get returned to it last, and the
\* external lock ("off" when the callers use none)
conc == <<pc, held, lock>>

(* ---------------------------- the driver ------------------------------- *)
\* the identifier under which the backend stores a table
Key(n) == IF foldCase THEN Lower(n) ELSE n

\* list_tables(): the lower-case names of the tables the session sees
list_tables(s) == {Lower(k) : k \in {x \in Names : s.live[x].exists}}

\* one statement sent to the driver: it raises when the connection is
\* closed or when the driver fails on this statement; failAt = k makes the
\* k-th statement of the call fail, failAt = 0 none
Attempt(s, stmt) == [s EXCEPT !.log = Append(@, stmt), !.n = @ + 1]
Raises(s, failAt) == ~connOpen \/ failAt = s.n + 1

\* cursor.execute('DROP TABLE IF EXISTS name')
ExecDrop(s, tablename, failAt) ==
    IF s.err # Ok THEN s
    ELSE IF Raises(s, failAt) THEN [Attempt(s, "DROP") EXCEPT !.err = ErrBackend]
    ELSE [Attempt(s, "DROP") EXCEPT !.live[Key(tablename)] = NoTable]

\* cursor.execute('CREATE TABLE name(...)')
ExecCreate(s, tablename, failAt) ==
    IF s.err # Ok THEN s
    ELSE IF Raises(s, failAt) \/ s.live[Key(tablename)].exists
         THEN [Attempt(s, "CREATE") EXCEPT !.err = ErrBackend]
    ELSE [Attempt(s, "CREATE") EXCEPT !.live[Key(tablename)] = EmptyTable]

\* connection.commit(): everything the session wrote becomes durable
DbCommit(s, failAt) ==
    IF s.err # Ok THEN s
    ELSE IF Raises(s, failAt) THEN [Attempt(s, "COMMIT") EXCEPT !.err = ErrBackend]
    ELSE [Attempt(s, "COMMIT") EXCEPT !.durable = s.live]

\* the running state of a call: backend tables, statements sent, exception
Begin == [live |-> live, durable |-> durable, log |-> <<>>, n |-> 0, err |-> Ok]

(* ---------------------------- Database --------------------------------- *)
\* is_table_existed that compares the name as given
is_table_existed_exact(s, tablename) == tablename \in list_tables(s)

\* Database.is_table_existed: list_tables() raises on a closed connection
ExistsRaises == ~connOpen
is_table_existed(s, tablename) == Lower(tablename) \in list_tables(s)

\* drop_table that never looks whether the table exists
drop_table_unchecked(s, tablename, silent, failAt) ==
    IF s.err # Ok THEN s
    ELSE DbCommit(ExecDrop(s, tablename, failAt), failAt)

\* drop_table whose silent also swallows what the driver raises
drop_table_swallow(s, tablename, silent, failAt) ==
    IF s.err # Ok THEN s
    ELSE IF ~silent /\ ExistsRaises THEN [s EXCEPT !.err = ErrBackend]
    ELSE IF ~silent /\ ~is_table_existed(s, tablename)
         THEN [s EXCEPT !.err = ErrNotFound]
    ELSE LET r == DbCommit(ExecDrop(s, tablename, failAt), failAt)
         IN  IF silent THEN [r EXCEPT !.err = Ok] ELSE r

\* Database.drop_table
drop_table(s, tablename, silent, failAt) ==
    IF s.err # Ok THEN s
    ELSE IF ~silent /\ ExistsRaises THEN [s EXCEPT !.err = ErrBackend]
    ELSE IF ~silent /\ ~is_table_existed(s, tablename)
         THEN [s EXCEPT !.err = ErrNotFound]
    ELSE DbCommit(ExecDrop(s, tablename, failAt), failAt)

\* create_table that never looks whether the table exists
create_table_unchecked(s, tablename, primary_key, force_recreate, failAt) ==
    IF ExistsRaises THEN [s EXCEPT !.err = ErrBackend]
    ELSE
      LET s2 == IF primary_key = "empty"
                THEN [s EXCEPT !.err = ErrPrimaryKey]
                ELSE s
      IN  DbCommit(ExecCreate(s2, tablename, failAt), failAt)

\* create_table that leaves the commit to the caller
create_table_nocommit(s, tablename, primary_key, force_recreate, failAt) ==
    IF ExistsRaises THEN [s EXCEPT !.err = ErrBackend]
    ELSE
      LET s1 == IF is_table_existed(s, tablename)
                THEN IF force_recreate
                     THEN drop_table(s, tablename, FALSE, failAt)
                     ELSE [s EXCEPT !.err = ErrExists]
                ELSE s
          s2 == IF s1.err = Ok /\ primary_key = "empty"
                THEN [s1 EXCEPT !.err = ErrPrimaryKey]
                ELSE s1
      IN  ExecCreate(s2, tablename, failAt)

\* create_table whose forced drop is not committed before the CREATE
create_table_dropNoCommit(s, tablename, primary_key, force_recreate, failAt) ==
    IF ExistsRaises THEN [s EXCEPT !.err = ErrBackend]
    ELSE
      LET s1 == IF is_table_existed(s, tablename)
                THEN IF force_recreate
                     THEN ExecDrop(s, tablename, failAt)
                     ELSE [s EXCEPT !.err = ErrExists]
                ELSE s
          s2 == IF s1.err = Ok /\ primary_key = "empty"
                THEN [s1 EXCEPT !.err = ErrPrimaryKey]
                ELSE s1
      IN  DbCommit(ExecCreate(s2, tablename, failAt), failAt)

\* create_table that sends the CREATE a second time when the first fails
create_table_retry(s, tablename, primary_key, force_recreate, failAt) ==
    IF ExistsRaises THEN [s EXCEPT !.err = ErrBackend]
    ELSE
      LET s1 == IF is_table_existed(s, tablename)
                THEN IF force_recreate
                     THEN drop_table(s, tablename, FALSE, failAt)
                     ELSE [s EXCEPT !.err = ErrExists]
                ELSE s
          s2 == IF s1.err = Ok /\ primary_key = "empty"
                THEN [s1 EXCEPT !.err = ErrPrimaryKey]
                ELSE s1
          r  == ExecCreate(s2, tablename, failAt)
          r2 == IF s2.err = Ok /\ r.err = ErrBackend
                THEN ExecCreate([r EXCEPT !.err = Ok], tablename, failAt)
                ELSE r
      IN  DbCommit(r2, failAt)

\* Database.create_table
create_table(s, tablename, primary_key, force_recreate, failAt) ==
    IF ExistsRaises THEN [s EXCEPT !.err = ErrBackend]
    ELSE
      LET s1 == IF is_table_existed(s, tablename)
                THEN IF force_recreate
                     THEN drop_table(s, tablename, FALSE, failAt)
                     ELSE [s EXCEPT !.err = ErrExists]
                ELSE s
          s2 == IF s1.err = Ok /\ primary_key = "empty"
                THEN [s1 EXCEPT !.err = ErrPrimaryKey]
                ELSE s1
      IN  DbCommit(ExecCreate(s2, tablename, failAt), failAt)

\* the record of the latest call: what was called, how it ended, the
\* statements it sent to the driver, the handle or answer it returned, and
\* whether it repeats the call before it (same operation, same name and
\* flag, and that call returned normally)
Ret(op, name, flag, result, answer, log, handle) ==
    [op |-> op, name |-> name, flag |-> flag, result |-> result,
     answer |-> answer, log |-> log, handle |-> handle,
     again |-> ret.op = op /\ ret.name = name /\ ret.flag = flag
               /\ ret.result = Ok]

\* get_table_obj(name): a new table object for the name as given
get_table_obj(name) == [id |-> nobj + 1, name |-> name]

\* a cache that is not consulted: a table object is built on every call
ensure_table_obj_always(name) ==
    [table_map EXCEPT ![name] = get_table_obj(name)]

\* a cache that folds the letter case of the name
ensure_table_obj_lower(name) ==
    IF table_map[Lower(name)] = NoHandle
    THEN [table_map EXCEPT ![name] = get_table_obj(Lower(name))]
    ELSE [table_map EXCEPT ![name] = table_map[Lower(name)]]

\* Database.__ensure_table_obj
ensure_table_obj(name) ==
    IF table_map[name] = NoHandle
    THEN [table_map EXCEPT ![name] = get_table_obj(name)]
    ELSE table_map

\* get on a session that remembers it was closed and refuses
Get_refusesClosed(name) ==
    /\ table_map[name] = NoHandle => nobj < MaxObjs
    /\ table_map' = IF connOpen THEN ensure_table_obj(name) ELSE table_map
    /\ nobj' = IF connOpen /\ table_map[name] = NoHandle THEN nobj + 1 ELSE nobj
    /\ issued' = IF connOpen THEN issued \cup {table_map'[name]} ELSE issued
    /\ ret' = Ret("get", name, FALSE, IF connOpen THEN Ok ELSE ErrBackend,
                  FALSE, <<>>, IF connOpen THEN table_map'[name] ELSE NoHandle)
    /\ asked' = asked \cup {name}
    /\ UNCHANGED conc
    /\ UNCHANGED <<mode, connOpen, foldCase, live, durable, fk, nrows, closeMark>>

\* get that builds a table object on every call
Get_eager(name) ==
    /\ nobj < MaxObjs
    /\ table_map' = [table_map EXCEPT ![name] = get_table_obj(name)]
    /\ nobj' = nobj + 1
    /\ issued' = issued \cup {table_map'[name]}
    /\ ret' = Ret("get", name, FALSE, Ok, FALSE, <<>>, table_map'[name])
    /\ asked' = asked \cup {name}
    /\ UNCHANGED conc
    /\ UNCHANGED <<mode, connOpen, foldCase, live, durable, fk, nrows, closeMark>>

\* Database.get
Get(name) ==
    /\ table_map[name] = NoHandle => nobj < MaxObjs
    /\ table_map' = ensure_table_obj(name)
    /\ nobj' = IF table_map[name] = NoHandle THEN nobj + 1 ELSE nobj
    /\ issued' = issued \cup {table_map'[name]}
    /\ ret' = Ret("get", name, FALSE, Ok, FALSE, <<>>, table_map'[name])
    /\ asked' = asked \cup {name}
    /\ UNCHANGED conc
    /\ UNCHANGED <<mode, connOpen, foldCase, live, durable, fk, nrows, closeMark>>

\* close that forgets to reset the cache
Close_keepsCache(raises) ==
    /\ raises => ~connOpen
    /\ connOpen' = FALSE
    /\ live' = IF connOpen THEN durable ELSE live
    /\ closeMark' = IF raises THEN closeMark ELSE nobj
    /\ ret' = Ret("close", "", FALSE, IF raises THEN ErrBackend ELSE Ok,
                  FALSE, <<"CLOSE">>, NoHandle)
    /\ asked' = IF raises THEN asked ELSE {}
    /\ UNCHANGED conc
    /\ UNCHANGED <<table_map, mode, nobj, issued, foldCase, durable, fk, nrows>>

\* Database.close: connection.close() ends the transaction without a
\* commit; on a connection that is already closed the driver either does
\* nothing or raises (raises), and then the cache is not reset
Close(raises) ==
    /\ raises => ~connOpen
    /\ connOpen' = FALSE
    /\ live' = IF connOpen THEN durable ELSE live
    /\ table_map' = IF raises THEN table_map ELSE [n \in Names |-> NoHandle]
    /\ closeMark' = IF raises THEN closeMark ELSE nobj
    /\ ret' = Ret("close", "", FALSE, IF raises THEN ErrBackend ELSE Ok,
                  FALSE, <<"CLOSE">>, NoHandle)
    /\ asked' = IF raises THEN asked ELSE {}
    /\ UNCHANGED conc
    /\ UNCHANGED <<mode, nobj, issued, foldCase, durable, fk, nrows>>

\* a commit that reaches the rows of one table only
Commit_oneTable ==
    LET s == DbCommit(Begin, 0)
    IN  /\ live' = s.live
        /\ durable' = [durable EXCEPT !["t"] = s.durable["t"]]
        /\ ret' = Ret("commit", "", FALSE, s.err, FALSE, s.log, NoHandle)
        /\ UNCHANGED asked
        /\ UNCHANGED conc
        /\ UNCHANGED <<table_map, mode, nobj, issued, connOpen, foldCase, fk,
                       nrows, closeMark>>

\* Database.commit
Commit ==
    LET s == DbCommit(Begin, 0)
    IN  /\ live' = s.live
        /\ durable' = s.durable
        /\ ret' = Ret("commit", "", FALSE, s.err, FALSE, s.log, NoHandle)
        /\ UNCHANGED asked
        /\ UNCHANGED conc
        /\ UNCHANGED <<table_map, mode, nobj, issued, connOpen, foldCase, fk,
                       nrows, closeMark>>

\* set_foreign_key_check flipping the pragma instead of setting it
SetForeignKeyCheck_toggle(to_check) ==
    LET raises == Raises(Begin, 0)
    IN  /\ fk' = IF raises THEN fk ELSE ~fk
        /\ ret' = Ret("set_foreign_key_check", "", to_check,
                      IF raises THEN ErrBackend ELSE Ok, FALSE,
                      <<IF to_check THEN "SET foreign_key_checks = 1"
                                    ELSE "SET foreign_key_checks = 0">>, NoHandle)
        /\ UNCHANGED asked
        /\ UNCHANGED conc
        /\ UNCHANGED <<table_map, mode, nobj, issued, connOpen, foldCase, live,
                       durable, nrows, closeMark>>

\* set_foreign_key_check followed by a commit, as the schema calls are
SetForeignKeyCheck_commits(to_check) ==
    LET raises == Raises(Begin, 0)
    IN  /\ fk' = IF raises THEN fk ELSE to_check
        /\ durable' = IF raises THEN durable ELSE live
        /\ ret' = Ret("set_foreign_key_check", "", to_check,
                      IF raises THEN ErrBackend ELSE Ok, FALSE,
                      <<IF to_check THEN "SET foreign_key_checks = 1"
                                    ELSE "SET foreign_key_checks = 0">>, NoHandle)
        /\ UNCHANGED asked
        /\ UNCHANGED conc
        /\ UNCHANGED <<table_map, mode, nobj, issued, connOpen, foldCase, live,
                       nrows, closeMark>>

\* Database.set_foreign_key_check
SetForeignKeyCheck(to_check) ==
    LET raises == Raises(Begin, 0)
    IN  /\ fk' = IF raises THEN fk ELSE to_check
        /\ ret' = Ret("set_foreign_key_check", "", to_check,
                      IF raises THEN ErrBackend ELSE Ok, FALSE,
                      <<IF to_check THEN "SET foreign_key_checks = 1"
                                    ELSE "SET foreign_key_checks = 0">>, NoHandle)
        /\ UNCHANGED asked
        /\ UNCHANGED conc
        /\ UNCHANGED <<table_map, mode, nobj, issued, connOpen, foldCase, live,
                       durable, nrows, closeMark>>

\* Database.is_table_existed as a call of its own
IsTableExisted(tablename) ==
    /\ ret' = Ret("is_table_existed", tablename, FALSE,
                  IF ExistsRaises THEN ErrBackend ELSE Ok,
                  ~ExistsRaises /\ is_table_existed(Begin, tablename),
                  <<>>, NoHandle)
    /\ UNCHANGED asked
    /\ UNCHANGED conc
    /\ UNCHANGED <<table_map, mode, nobj, issued, connOpen, foldCase, live,
                   durable, fk, nrows, closeMark>>

\* a call of Database.create_table
CreateTable(tablename, primary_key, force_recreate, failAt) ==
    LET s == create_table(Begin, tablename, primary_key, force_recreate, failAt)
    IN  /\ live' = s.live
        /\ durable' = s.durable
        /\ ret' = Ret("create_table", tablename, force_recreate,
                      s.err, FALSE, s.log, NoHandle)
        /\ UNCHANGED asked
        /\ UNCHANGED conc
        /\ UNCHANGED <<table_map, mode, nobj, issued, connOpen, foldCase, fk,
                       nrows, closeMark>>

\* drop_table that also forgets the handle cached for the table
DropTable_evicts(tablename, silent, failAt) ==
    LET s == drop_table(Begin, tablename, silent, failAt)
    IN  /\ live' = s.live
        /\ durable' = s.durable
        /\ table_map' = IF s.err = Ok
                         THEN [table_map EXCEPT ![tablename] = NoHandle]
                         ELSE table_map
        /\ ret' = Ret("drop_table", tablename, silent, s.err, FALSE,
                      s.log, NoHandle)
        /\ UNCHANGED asked
        /\ UNCHANGED conc
        /\ UNCHANGED <<mode, nobj, issued, connOpen, foldCase, fk,
                       nrows, closeMark>>

\* a call of Database.drop_table
DropTable(tablename, silent, failAt) ==
    LET s == drop_table(Begin, tablename, silent, failAt)
    IN  /\ live' = s.live
        /\ durable' = s.durable
        /\ ret' = Ret("drop_table", tablename, silent, s.err, FALSE,
                      s.log, NoHandle)
        /\ UNCHANGED asked
        /\ UNCHANGED conc
        /\ UNCHANGED <<table_map, mode, nobj, issued, connOpen, foldCase, fk,
                       nrows, closeMark>>

(* ---------------------------- Table handle ----------------------------- *)
\* cursor.execute('INSERT INTO name ...') through the session's cursor
ExecInsert(s, tablename, failAt) ==
    IF s.err # Ok THEN s
    ELSE IF Raises(s, failAt) \/ ~s.live[Key(tablename)].exists
         THEN [Attempt(s, "INSERT") EXCEPT !.err = ErrBackend]
    ELSE [Attempt(s, "INSERT") EXCEPT
             !.live[Key(tablename)].rows = @ \cup {nrows + 1}]

\* Table.insert on a handle h the session handed out: writes one row
\* through the shared cursor, and commits at once in auto-commit mode
Insert(h) ==
    LET s1 == ExecInsert(Begin, h.name, 0)
        s  == IF mode = "auto" THEN DbCommit(s1, 0) ELSE s1
    IN  /\ h \in issued
        /\ s1.err = Ok => nrows < MaxRows
        /\ live' = s.live
        /\ durable' = s.durable
        /\ nrows' = IF s1.err = Ok THEN nrows + 1 ELSE nrows
        /\ ret' = Ret("insert", h.name, FALSE, s.err, FALSE, s.log, h)
        /\ UNCHANGED asked
        /\ UNCHANGED conc
        /\ UNCHANGED <<table_map, mode, nobj, issued, connOpen, foldCase, fk,
                       closeMark>>

\* the driver failures tried on a create_table or drop_table call that
\* sends m statements: none (0), or on its k-th statement
FailPoints(m) == IF connOpen THEN 0..m ELSE {0}

\* the callers sharing one session, and a caller outside get
Callers == {"c1", "c2"}
Idle == [at |-> "idle", name |-> ""]

NoCall == [op |-> "init", name |-> "", flag |-> FALSE, result |-> Ok,
           answer |-> FALSE, log |-> <<>>, handle |-> NoHandle, again |-> FALSE]

Init == /\ table_map = [n \in Names |-> NoHandle]
        /\ mode \in Modes
        /\ nobj = 0
        /\ issued = {}
        /\ connOpen = TRUE
        /\ foldCase \in BOOLEAN
        /\ live = [n \in Names |-> NoTable]
        /\ durable = [n \in Names |-> NoTable]
        /\ fk = TRUE
        /\ nrows = 0
        /\ closeMark = 0
        /\ ret = NoCall
        /\ pc = [c \in Callers |-> Idle]
        /\ held = [c \in Callers |-> NoHandle]
        /\ lock = "off"
        /\ asked = {}

Next == \/ \E n \in Names : Get(n)
        \/ \E r \in BOOLEAN : Close(r)
        \/ Commit
        \/ \E c \in BOOLEAN : SetForeignKeyCheck(c)
        \/ \E n \in Names : IsTableExisted(n)
        \/ \E n \in Names, pk \in PrimaryKeys, fr \in BOOLEAN :
             \E f \in FailPoints(Len(create_table(Begin, n, pk, fr, 0).log)) :
               CreateTable(n, pk, fr, f)
        \/ \E n \in Names, sl \in BOOLEAN :
             \E f \in FailPoints(Len(drop_table(Begin, n, sl, 0).log)) :
               DropTable(n, sl, f)
        \/ \E h \in issued : Insert(h)

Spec == Init /\ [][Next]_vars

(* ------------------- get called by two callers at once ------------------ *)
\* Database.get, entered by caller c without taking the external lock even
\* when the callers use one
GetCheck_nolock(c, name) ==
    /\ pc[c].at = "idle"
    /\ pc' = [pc EXCEPT ![c] = [at |-> IF table_map[name] = NoHandle
                                       THEN "insert" ELSE "return",
                                name |-> name]]
    /\ asked' = asked \cup {name}
    /\ UNCHANGED <<table_map, mode, nobj, issued, connOpen, foldCase, live,
                   durable, fk, nrows, closeMark, ret, held, lock>>

\* Database.get entered by caller c: __ensure_table_obj's has_key test. With
\* an external lock in use the caller takes it first and holds it until
\* get returns.
GetCheck(c, name) ==
    /\ pc[c].at = "idle"
    /\ lock \in {"off", "free"}
    /\ lock' = IF lock = "off" THEN "off" ELSE c
    /\ pc' = [pc EXCEPT ![c] = [at |-> IF table_map[name] = NoHandle
                                       THEN "insert" ELSE "return",
                                name |-> name]]
    /\ asked' = asked \cup {name}
    /\ UNCHANGED <<table_map, mode, nobj, issued, connOpen, foldCase, live,
                   durable, fk, nrows, closeMark, ret, held>>

\* __ensure_table_obj's assignment, taken by the caller that found the name
\* absent: the hook builds a handle and the cache entry is overwritten
GetInsert(c) ==
    /\ pc[c].at = "insert"
    /\ nobj < MaxObjs
    /\ table_map' = [table_map EXCEPT ![pc[c].name] = get_table_obj(pc[c].name)]
    /\ nobj' = nobj + 1
    /\ pc' = [pc EXCEPT ![c].at = "return"]
    /\ UNCHANGED <<mode, issued, connOpen, foldCase, live, durable, fk, nrows,
                   closeMark, ret, held, lock, asked>>

\* get's return statement: the caller receives what the cache holds now
GetReturn(c) ==
    /\ pc[c].at = "return"
    /\ held' = [held EXCEPT ![c] = table_map[pc[c].name]]
    /\ issued' = issued \cup {table_map[pc[c].name]}
    /\ pc' = [pc EXCEPT ![c] = Idle]
    /\ lock' = IF lock = c THEN "free" ELSE lock
    /\ UNCHANGED <<table_map, mode, nobj, connOpen, foldCase, live, durable,
                   fk, nrows, closeMark, ret, asked>>

\* a fresh session shared by the callers, with or without an external lock
ConcInit == /\ table_map = [n \in Names |-> NoHandle]
            /\ mode \in Modes
            /\ nobj = 0
            /\ issued = {}
            /\ connOpen = TRUE
            /\ foldCase \in BOOLEAN
            /\ live = [n \in Names |-> NoTable]
            /\ durable = [n \in Names |-> NoTable]
            /\ fk = TRUE
            /\ nrows = 0
            /\ closeMark = 0
            /\ ret = NoCall
            /\ pc = [c \in Callers |-> Idle]
            /\ held = [c \in Callers |-> NoHandle]
            /\ lock \in {"off", "free"}
            /\ asked = {}

ConcNext == \/ \E c \in Callers, n \in Names : GetCheck(c, n)
            \/ \E c \in Callers : GetInsert(c)
            \/ \E c \in Callers : GetReturn(c)

ConcSpec == ConcInit /\ [][ConcNext]_vars

(* ---------------------------- claims ----------------------------------- *)
\* the statements of a log
Sent(log) == {log[i] : i \in 1..Len(log)}

\* C1: between two close() calls the cache never replaces a handle: every
\* step other than close keeps each cached handle, and every get returns
\* the handle the cache holds for the name, which is the one cached before
\* the call when there was one
C1_HandleIdentity ==
    [][/\ ret'.op # "close" =>
            \A n \in Names : table_map[n] # NoHandle => table_map'[n] = table_map[n]
       /\ ret'.op = "get" =>
            /\ ret'.handle = table_map'[ret'.name]
            /\ ret'.handle # NoHandle
            /\ table_map[ret'.name] # NoHandle => ret'.handle = table_map[ret'.name]
      ]_vars

\* get(t), get(T), then get(t) twice: the first handle comes back
C1_Witness ==
    ret.op = "get" /\ ret.again /\ ret.handle.id = 1 /\ nobj = 2

\* C2: create_table(n, cols, force_recreate=False) on a session where n does
\* not exist succeeds, and the same call made again right after it fails
\* with TABLE ALREADY EXISTS without sending a statement; with
\* force_recreate=True the first and the repeated call both succeed and n
\* exists afterwards (the driver not failing, the primary key not empty)
C2_CreateTwice ==
    [][\A n \in {ret'.name} \cap Names, pk \in PrimaryKeys \ {"empty"},
          fr \in {ret'.flag} :
         (ret'.op = "create_table" /\ CreateTable(n, pk, fr, 0)) =>
           /\ (connOpen /\ ~is_table_existed(Begin, n)) =>
                 (ret'.result = Ok /\ live'[Key(n)].exists)
           /\ (ret'.again /\ ~fr) =>
                 (ret'.result = ErrExists /\ ret'.log = <<>> /\ live' = live)
           /\ (ret'.again /\ fr) =>
                 (ret'.result = Ok /\ live'[Key(n)].exists)
      ]_vars

\* the second of two create_table calls without force_recreate has failed
C2_Witness ==
    /\ ret.op = "create_table" /\ ret.again /\ ~ret.flag
    /\ ret.result = ErrExists /\ live[Key(ret.name)].exists

\* C3: on an open session drop_table(n) with silent=False on a table that
\* does not exist fails with TABLE DOES NOT EXIST, sends neither DROP nor
\* COMMIT and changes nothing; with silent=True it returns normally
C3_DropMissing ==
    [][\A n \in Names :
         (connOpen /\ ~is_table_existed(Begin, n)) =>
           /\ (ret'.op = "drop_table" /\ ret'.name = n /\ ~ret'.flag) =>
                 /\ ret'.result = ErrNotFound
                 /\ ret'.log = <<>>
                 /\ live' = live /\ durable' = durable
           /\ DropTable(n, TRUE, 0) => ret'.result = Ok
      ]_vars

\* drop_table without silent has failed on a missing table
C3_Witness ==
    /\ ret.op = "drop_table" /\ ~ret.flag /\ ret.result = ErrNotFound
    /\ connOpen /\ ~is_table_existed(Begin, ret.name)

\* the rows of table k that the session wrote and that are not durable yet
PendingRows(k) == live[k].rows \ durable[k].rows

\* C4 as stated: in explicit mode no row becomes durable in a step other
\* than the caller's commit()
C4_Original ==
    [][(mode = "explicit" /\ ret'.op # "commit") =>
         \A k \in Names : durable'[k].rows \subseteq durable[k].rows]_vars

\* C4 amended: in explicit mode a row becomes durable only in a call that
\* sent COMMIT to the connection: commit(), create_table or drop_table;
\* get, set_foreign_key_check, is_table_existed, close and the write
\* itself leave every pending row pending or discard it
C4_DurableOnlyByCommit ==
    [][(mode = "explicit"
        /\ \E k \in Names : ~(durable'[k].rows \subseteq durable[k].rows)) =>
         /\ ret'.op \in {"commit", "create_table", "drop_table"}
         /\ "COMMIT" \in Sent(ret'.log)]_vars

\* a written row is still pending after a call that is no commit
C4_Witness ==
    /\ mode = "explicit" /\ connOpen
    /\ ret.op = "set_foreign_key_check" /\ ret.result = Ok
    /\ \E k \in Names : PendingRows(k) # {}

\* C5: a commit() that returns normally makes durable everything the
\* session sees, on every table at once; and no row is pending while a row
\* written after it (a larger id), of whatever table, is durable
C5_SessionWideCommit ==
    [][/\ (ret'.op = "commit" /\ ret'.result = Ok) =>
            (durable' = live /\ live' = live)
       /\ \A k1 \in Names, k2 \in Names :
            \A r1 \in PendingRows(k1)', r2 \in durable'[k2].rows : r2 < r1
      ]_vars

\* two tables of the session hold uncommitted work at the same time
C5_Witness ==
    /\ connOpen
    /\ Cardinality({k \in Names : live[k] # durable[k]}) = 2
    /\ \E k \in Names : PendingRows(k) # {}

\* C6: a close() that returns leaves the connection closed and the cache
\* empty, and every handle cached or returned by get afterwards was
\* constructed after that close
C6_CloseClearsCache ==
    /\ (ret.op = "close" /\ ret.result = Ok) =>
          (~connOpen /\ \A n \in Names : table_map[n] = NoHandle)
    /\ \A n \in Names : table_map[n] # NoHandle => table_map[n].id > closeMark
    /\ ret.op = "get" => ret.handle.id > closeMark

\* get(n) after a close returned a new handle although an older handle
\* for n had been handed out before the close
C6_Witness ==
    /\ ret.op = "get" /\ closeMark >= 1 /\ ret.handle.id > closeMark
    /\ \E h \in issued : h.name = ret.name /\ h.id <= closeMark

\* C7: on a closed session a call that reaches the connection or the
\* cursor never returns normally
C7_FailsAfterClose ==
    (~connOpen /\ ret.op \in {"insert", "commit", "create_table", "drop_table",
                              "set_foreign_key_check", "is_table_existed"})
      => ret.result = ErrBackend

\* a write through a handle obtained before close() has failed
C7_Witness ==
    /\ ~connOpen /\ ret.op = "insert" /\ ret.result = ErrBackend
    /\ ret.handle.id <= closeMark

\* C8 as stated, on an open session whose driver does not fail:
\* create_table with an empty primary_key fails with the primary-key
\* error and sends no CREATE TABLE, for every name and force_recreate
C8_Original ==
    [][\A n \in {ret'.name} \cap Names, fr \in {ret'.flag} :
         (connOpen /\ ret'.op = "create_table" /\ CreateTable(n, "empty", fr, 0)) =>
           (ret'.result = ErrPrimaryKey /\ "CREATE" \notin Sent(ret'.log))]_vars

\* C9: is_table_existed(name) answers whether the lower-cased name is in
\* list_tables(), so names that differ only in letter case get the same
\* answer, and the call changes neither the cache nor the tables nor what
\* is durable
C9_IsTableExisted ==
    [][ret'.op = "is_table_existed" =>
         /\ UNCHANGED <<table_map, nobj, issued, connOpen, live, durable, fk, nrows>>
         /\ connOpen =>
              /\ ret'.result = Ok
              /\ ret'.answer = (Lower(ret'.name) \in list_tables(Begin))
              /\ \A n \in Names :
                   Lower(n) = Lower(ret'.name) =>
                     is_table_existed(Begin, n) = ret'.answer
      ]_vars

\* on a backend that keeps letter case, "T" is reported to exist because
\* the table "t" does
C9_Witness ==
    /\ ret.op = "is_table_existed" /\ ret.name = "T" /\ ret.answer
    /\ ~foldCase /\ ~live["T"].exists /\ live["t"].exists

\* C10: when create_table returns normally its last two statements were
\* CREATE TABLE and COMMIT, the table exists, and nothing the session
\* wrote is left uncommitted, whatever the transaction mode
C10_CreateCommits ==
    (ret.op = "create_table" /\ ret.result = Ok) =>
       /\ Len(ret.log) >= 2
       /\ SubSeq(ret.log, Len(ret.log) - 1, Len(ret.log)) = <<"CREATE", "COMMIT">>
       /\ live[Key(ret.name)].exists
       /\ durable = live

\* in explicit mode a create_table has returned and the row written
\* before it is durable
C10_Witness ==
    /\ ret.op = "create_table" /\ ret.result = Ok /\ mode = "explicit"
    /\ \E k \in Names : durable[k].rows # {}

\* C11 as stated: when drop_table returns normally it has sent DROP TABLE
\* IF EXISTS and then COMMIT, is_table_existed(name) is false and nothing
\* the session wrote is left uncommitted
C11_Original ==
    (ret.op = "drop_table" /\ ret.result = Ok) =>
       /\ ret.log = <<"DROP", "COMMIT">>
       /\ ~is_table_existed(Begin, ret.name)
       /\ durable = live

\* C12: get keeps the letter case of the name: the handles cached for
\* two different names are different objects, and the handle cached for
\* or returned to a name was constructed with exactly that name
C12_CaseSensitiveGet ==
    /\ \A n1 \in Names, n2 \in Names :
          (n1 # n2 /\ table_map[n1] # NoHandle /\ table_map[n2] # NoHandle) =>
             table_map[n1].id # table_map[n2].id
    /\ \A n \in Names : table_map[n] # NoHandle => table_map[n].name = n
    /\ ret.op = "get" => (ret.handle.name = ret.name /\ ret.handle.id >= 1)

\* "t" and "T" are both cached, and the get of one of them was repeated
C12_Witness ==
    /\ table_map["t"] # NoHandle /\ table_map["T"] # NoHandle
    /\ ret.op = "get" /\ ret.again

\* C13: a create_table with force_recreate=True that finds the table
\* existing and returns normally has sent DROP, COMMIT, CREATE, COMMIT in
\* that order, and the table it names is then a new table without rows,
\* durably
C13_DropThenRecreate ==
    [][\A n \in {ret'.name} \cap Names :
         (ret'.op = "create_table" /\ ret'.flag /\ ret'.result = Ok
          /\ is_table_existed(Begin, n)) =>
           /\ ret'.log = <<"DROP", "COMMIT", "CREATE", "COMMIT">>
           /\ live'[Key(n)] = EmptyTable
           /\ durable' = live'
      ]_vars

\* a forced re-creation has returned after a row had been written to the
\* one table of a case-folding backend
C13_Witness ==
    /\ ret.op = "create_table" /\ ret.flag /\ ret.result = Ok
    /\ Len(ret.log) = 4 /\ foldCase /\ nrows = 1
    /\ live[Key(ret.name)] = EmptyTable

\* the names the cache holds a handle for
Cached == {n \in Names : table_map[n] # NoHandle}

\* C14: get_table_obj is called only by a get of a name the cache does
\* not hold, once, with that name, and the object goes into the cache
\* under that name alone; a get of a cached name and every other
\* operation construct nothing; so the objects constructed since the
\* latest close are as many as the names cached
C14_LazyOnce ==
    [][/\ nobj' # nobj =>
            /\ ret'.op = "get" /\ table_map[ret'.name] = NoHandle
            /\ nobj' = nobj + 1
            /\ table_map'[ret'.name] = [id |-> nobj', name |-> ret'.name]
       /\ ret'.op = "get" =>
            /\ table_map[ret'.name] # NoHandle => nobj' = nobj
            /\ table_map[ret'.name] = NoHandle => nobj' = nobj + 1
            /\ \A n \in Names \ {ret'.name} : table_map'[n] = table_map[n]
       /\ Cardinality(Cached') = nobj' - closeMark'
      ]_vars

\* after a close, a name was requested twice in a row and one object was
\* constructed for it
C14_Witness ==
    /\ ret.op = "get" /\ ret.again
    /\ closeMark >= 1 /\ nobj - closeMark = 1 /\ Cardinality(Cached) = 1

\* how often a statement occurs in a log
Count(log, stmt) == Cardinality({i \in 1..Len(log) : log[i] = stmt})

\* C15: in every reachable state with the session open, a create_table or
\* drop_table call on whose f-th statement the driver fails ends with the
\* driver's failure, the statements it sent are those of the undisturbed
\* call up to the failed one, which is the last (no commit and no second
\* attempt follows it), and nothing becomes durable unless a commit of the
\* call preceded the failed statement
C15_NoRetry ==
    connOpen =>
      \A n \in Names, fl \in BOOLEAN :
        /\ \A pk \in PrimaryKeys :
             LET whole == create_table(Begin, n, pk, fl, 0).log
             IN  \A f \in 1..Len(whole) :
                   LET s == create_table(Begin, n, pk, fl, f)
                   IN  /\ s.err = ErrBackend
                       /\ Len(s.log) = f
                       /\ s.log = SubSeq(whole, 1, f)
                       /\ Count(s.log, "CREATE") <= 1
                       /\ Count(s.log, "DROP") <= 1
                       /\ "COMMIT" \notin Sent(SubSeq(s.log, 1, f - 1)) =>
                            s.durable = durable
        /\ LET whole == drop_table(Begin, n, fl, 0).log
           IN  \A f \in 1..Len(whole) :
                 LET s == drop_table(Begin, n, fl, f)
                 IN  /\ s.err = ErrBackend
                     /\ Len(s.log) = f
                     /\ s.log = SubSeq(whole, 1, f)
                     /\ Count(s.log, "DROP") = 1
                     /\ s.durable = durable

\* the driver has failed on the CREATE TABLE of a forced re-creation
C15_Witness ==
    /\ connOpen /\ ret.op = "create_table" /\ ret.result = ErrBackend
    /\ ret.log = <<"DROP", "COMMIT", "CREATE">>

\* C16: two callers hold different handles for one name only when they
\* share the session without an external lock; with the calls to get
\* serialized by the lock, every name is built once and the callers that
\* asked for it hold the same handle
C16_SerializedGetsAgree ==
    /\ (\E c, d \in Callers : /\ held[c] # NoHandle /\ held[d] # NoHandle
                               /\ held[c].name = held[d].name
                               /\ held[c] # held[d]) => lock = "off"
    /\ lock # "off" =>
         /\ nobj = Cardinality(Cached)
         /\ \A c \in Callers :
              held[c] # NoHandle => held[c] = table_map[held[c].name]

\* without a lock both callers found the name absent, each built a handle,
\* and they now hold different handles for the same name
C16_Witness ==
    /\ lock = "off"
    /\ held["c1"] # NoHandle /\ held["c2"] # NoHandle
    /\ held["c1"].name = held["c2"].name
    /\ held["c1"] # held["c2"]
    /\ nobj = 2 /\ Cardinality(Cached) = 1

\* C17: a set_foreign_key_check(enabled) that returns normally leaves the
\* pragma equal to enabled, and no other operation changes the pragma, so
\* the pragma is the argument of the latest such call; the call sends no
\* commit and leaves the cache, the tables and the uncommitted work as
\* they were; repeated with the same argument it changes nothing at all
C17_ForeignKeyCheck ==
    [][/\ ret'.op # "set_foreign_key_check" => fk' = fk
       /\ ret'.op = "set_foreign_key_check" =>
            /\ ret'.result = Ok => fk' = ret'.flag
            /\ ret'.result # Ok => fk' = fk
            /\ "COMMIT" \notin Sent(ret'.log)
            /\ table_map' = table_map /\ nobj' = nobj
            /\ live' = live /\ durable' = durable
            /\ (ret'.again /\ ret'.result = Ok) =>
                 <<table_map, mode, nobj, issued, connOpen, foldCase, live,
                   durable, fk, nrows, closeMark>>' =
                 <<table_map, mode, nobj, issued, connOpen, foldCase, live,
                   durable, fk, nrows, closeMark>>
      ]_vars

\* the check has been switched off twice in a row while a handle was
\* cached and a created table had uncommitted rows
C17_Witness ==
    /\ ret.op = "set_foreign_key_check" /\ ret.result = Ok /\ ret.again
    /\ ~ret.flag /\ ~fk
    /\ Cached # {}
    /\ \E n \in Names : live[n].exists /\ live[n] # durable[n]

\* C18, as claimed, in the part the claim singles out: after a
\* create_table call that ends in an error, every table that existed
\* before the call still exists with the rows it had, in the session's
\* view and in the committed state. The code violates it: with
\* force_recreate the existing table is dropped, and the drop committed,
\* before the primary key is looked at and before CREATE TABLE is sent.
C18_Original ==
    [][(ret'.op = "create_table" /\ ret'.result # Ok) =>
         \A n \in Names :
           /\ live[n].exists => live'[n] = live[n]
           /\ durable[n].exists => durable'[n] = durable[n]
      ]_vars

\* C19: only get and close change the cache. Every other operation leaves
\* it as it was; close empties it or, when it raises, keeps it; get
\* returns normally with a handle whether or not the table exists, the
\* cached one when the name was cached (also after the table was
\* dropped), and changes no entry but the requested name's, which it
\* fills when empty
C19_CacheFrame ==
    [][/\ ret'.op \notin {"get", "close"} => table_map' = table_map
       /\ ret'.op = "close" =>
            \/ table_map' = [n \in Names |-> NoHandle]
            \/ ret'.result # Ok /\ table_map' = table_map
       /\ ret'.op = "get" =>
            /\ ret'.result = Ok
            /\ ret'.handle # NoHandle
            /\ ret'.handle = table_map'[ret'.name]
            /\ table_map[ret'.name] # NoHandle => table_map' = table_map
            /\ \A n \in Names \ {ret'.name} : table_map'[n] = table_map[n]
      ]_vars

\* a row went into a table through the only handle ever built, the table
\* has been dropped since, and the get that followed returned that handle
C19_Witness ==
    /\ connOpen /\ nobj = 1 /\ nrows = 1
    /\ \A n \in Names : ~live[n].exists
    /\ ret.op = "get" /\ ret.result = Ok
    /\ ret.handle = table_map[ret.name] /\ ret.handle.id = 1

\* C20: the cache holds exactly the names passed to get since the session
\* was constructed or last closed, each mapped to the handle get_table_obj
\* built for that name in that period, a different one per name; get
\* always returns normally with the cached handle, also on a closed
\* session
C20_CacheIsAsked ==
    /\ Cached = asked
    /\ \A n \in asked :
         /\ table_map[n].name = n
         /\ table_map[n].id \in (closeMark + 1)..nobj
         /\ table_map[n] \in issued
    /\ \A n, m \in asked : table_map[n].id = table_map[m].id => n = m
    /\ ret.op = "get" =>
         /\ ret.result = Ok
         /\ ret.name \in asked
         /\ ret.handle = table_map[ret.name]

\* after a close that emptied a filled cache, a get on the closed session
\* returned a new handle and the cache holds that name only
C20_Witness ==
    /\ ~connOpen /\ closeMark >= 1
    /\ ret.op = "get" /\ ret.result = Ok
    /\ asked = {ret.name} /\ Cached = {ret.name}
    /\ table_map[ret.name].id = closeMark + 1
=============================================================================
